---- MODULE Spec2Model ----
(***************************************************************************)
(* A model of text_data.py: transform_text_data and _reverse_memo.         *)
(*                                                                         *)
(* Strings are sequences of one-character strings, so that cleaning,       *)
(* splitting, joining, stemming and name concatenation are computed        *)
(* character by character.  Tables are sequences of columns; the caller's  *)
(* table, df2, the per-column feature frames and df_final are objects of a *)
(* heap, so that "the same object" and "an equal copy" are different.      *)
(* Thresholds are hundredths (min_df = 0.05 is 5).                         *)
(***************************************************************************)
EXTENDS Integers, Sequences, FiniteSets, TLC

\* The largest number of rows of an input table.
MaxRows == 2

(***************************************************************************)
(* Characters and strings                                                  *)
(***************************************************************************)
\* The characters of the model, in code-point order.
Alphabet ==
    <<" ", "!", "%", ":", "C", "D", "U", "a", "c", "d", "g", "i", "k", "n", "o",
      "r", "s", "t", "u", "w", "x">>

Ord(ch) == CHOOSE i \in 1..Len(Alphabet) : Alphabet[i] = ch

\* str.to_lowercase / the vectorizer's lowercase=True, on one character.
LowerChar(ch) ==
    CASE ch = "C" -> "c"
      [] ch = "D" -> "d"
      [] ch = "U" -> "u"
      [] OTHER -> ch

\* \w of the regular expressions: letters (no digit or underscore occurs).
IsWordChar(ch) == ch \notin {" ", "!", "%", ":"}

\* \s of the regular expressions.
IsSpace(ch) == ch = " "

Lower(s) == [i \in 1..Len(s) |-> LowerChar(s[i])]

\* Python's and pandas' order of strings: lexicographic by code point.
RECURSIVE StrLess(_, _)
StrLess(s, t) ==
    IF t = <<>> THEN FALSE
    ELSE IF s = <<>> THEN TRUE
    ELSE IF s[1] # t[1] THEN Ord(s[1]) < Ord(t[1])
    ELSE StrLess(Tail(s), Tail(t))

\* sorted(S) for a finite set of strings.
RECURSIVE Sorted(_)
Sorted(S) ==
    IF S = {} THEN <<>>
    ELSE LET m == CHOOSE x \in S : \A y \in S \ {x} : StrLess(x, y)
         IN  <<m>> \o Sorted(S \ {m})

Range(q) == {q[i] : i \in 1..Len(q)}

\* A missing string cell (null), and a missing token list.
None == <<"None">>
NoneList == << <<"None">> >>

\* The literal document of a row without tokens.
Unknown == <<"U", "n", "k", "n", "o", "w", "n">>

\* prefix_sep of get_dummies, and the infix of a text feature's name.
PrefixSep == <<":", ":">>
WordSep == <<":", ":", "w", "o", "r", "d", ":", ":">>

(***************************************************************************)
(* Tokenizer / cleaner                                                     *)
(***************************************************************************)
\* str.replace_all('[^\s\w\d%]', ''): drop every other character.
StripPunct(s) == SelectSeq(s, LAMBDA ch : IsSpace(ch) \/ IsWordChar(ch) \/ ch = "%")

\* str.split(by=" "): the empty string splits into one empty token.
SplitBySpace(s) ==
    LET F[i \in 0..Len(s)] ==
            IF i = 0 THEN << <<>> >>
            ELSE IF s[i] = " " THEN Append(F[i - 1], <<>>)
            ELSE [F[i - 1] EXCEPT ![Len(F[i - 1])] = Append(@, s[i])]
    IN  F[Len(s)]

\* The expression of one text cell; null stays null.
CleanCell(cell) ==
    IF cell = None THEN NoneList ELSE SplitBySpace(Lower(StripPunct(cell)))

\* " ".join(tokens)
RECURSIVE JoinSpace(_)
JoinSpace(toks) ==
    IF toks = <<>> THEN <<>>
    ELSE IF Len(toks) = 1 THEN toks[1]
    ELSE toks[1] \o <<" ">> \o JoinSpace(Tail(toks))

(***************************************************************************)
(* Stemmer                                                                 *)
(***************************************************************************)
\* ps.stem: words of at most two characters are returned as they are; of
\* the Porter rules, step 1a on a final "s" ("ss" kept, "s" dropped).
PorterStem(w) ==
    IF Len(w) <= 2 THEN w
    ELSE IF w[Len(w)] = "s" /\ w[Len(w) - 1] # "s" THEN SubSeq(w, 1, Len(w) - 1)
    ELSE w

(***************************************************************************)
(* Stem memo and reverse memo: Python dicts, which keep insertion order,   *)
(* as sequences of [k, v] items with distinct keys.                        *)
(***************************************************************************)
DictKeys(d) == {d[i].k : i \in 1..Len(d)}

DictValues(d) == {d[i].v : i \in 1..Len(d)}

DictGet(d, key) == d[CHOOSE i \in 1..Len(d) : d[i].k = key].v

\* d[key] = val: a present key keeps its place, a new key goes last.
DictSet(d, key, val) ==
    IF key \in DictKeys(d)
    THEN [i \in 1..Len(d) |-> IF d[i].k = key THEN [k |-> key, v |-> val] ELSE d[i]]
    ELSE Append(d, [k |-> key, v |-> val])

\* _reverse_memo with "output[item] = [key]" on both branches: a later key
\* of a stem replaces the list instead of joining it.
ReverseMemoOverwriting(memo) ==
    LET output[i \in 0..Len(memo)] ==
            IF i = 0 THEN <<>>
            ELSE DictSet(output[i - 1], memo[i].v, <<memo[i].k>>)
    IN  output[Len(memo)]

\* _reverse_memo: the items of memo in order, each key appended to the list
\* of its item (the stem), a new list when the stem is not there yet.
_reverse_memo(memo) ==
    LET output[i \in 0..Len(memo)] ==
            IF i = 0 THEN <<>>
            ELSE LET key == memo[i].k
                     item == memo[i].v
                     out == output[i - 1]
                 IN  IF item \in DictKeys(out)
                     THEN DictSet(out, item, Append(DictGet(out, item), key))
                     ELSE DictSet(out, item, <<key>>)
    IN  output[Len(memo)]

(***************************************************************************)
(* Vectorizer (CountVectorizer / TfidfVectorizer of scikit-learn)          *)
(***************************************************************************)
\* stopwords.words('english'), the words of it the model's texts can form.
stop == {<<"i", "t">>, <<"i", "s">>, <<"a", "s">>, <<"a", "t">>, <<"t", "o">>}

\* token_pattern \b\w\w+\b: the maximal runs of word characters, of two
\* characters or more.
WordRuns(s) ==
    LET F[i \in 0..Len(s)] ==
            IF i = 0 THEN << <<>> >>
            ELSE IF ~IsWordChar(s[i]) THEN Append(F[i - 1], <<>>)
            ELSE [F[i - 1] EXCEPT ![Len(F[i - 1])] = Append(@, s[i])]
    IN  SelectSeq(F[Len(s)], LAMBDA w : Len(w) >= 2)

\* build_analyzer: lowercase, tokenize, remove the stop words.
Analyze(doc, stop_words) ==
    SelectSeq(WordRuns(Lower(doc)), LAMBDA w : w \notin stop_words)

\* How many times term occurs among the terms of one document.
TermCount(term, terms) == Cardinality({i \in 1..Len(terms) : terms[i] = term})

\* In how many documents term occurs.
DocCount(term, docs, stop_words) ==
    Cardinality({i \in 1..Len(docs) : term \in Range(Analyze(docs[i], stop_words))})

\* _count_vocab: every term of every document.
CountVocab(docs, stop_words) ==
    UNION {Range(Analyze(docs[i], stop_words)) : i \in 1..Len(docs)}

\* _limit_features: the terms whose document count is within
\* [min_df * n_doc, max_df * n_doc]; thresholds are hundredths.
LimitFeatures(vocab, docs, vec) ==
    {t \in vocab :
        /\ 100 * DocCount(t, docs, vec.stop_words) >= vec.min_df * Len(docs)
        /\ 100 * DocCount(t, docs, vec.stop_words) <= vec.max_df * Len(docs)}

\* One cell of the matrix: the count, or for tfidf the numbers the weight
\* is computed from (term count, document count, number of documents).
Score(vec, term, doc, docs) ==
    LET tf == TermCount(term, Analyze(doc, vec.stop_words))
    IN  IF vec.method = "tfidf"
        THEN <<tf, DocCount(term, docs, vec.stop_words), Len(docs)>>
        ELSE tf

\* A fit that keeps the vocabulary of the vectorizer's earlier fit and adds
\* the terms of docs to it.
FittedVocabularyKept(vec, docs) ==
    Sorted(Range(vec.vocabulary_)
           \cup LimitFeatures(CountVocab(docs, vec.stop_words), docs, vec))

\* The vocabulary a fit of vec on docs learns.  The vocabulary of an
\* earlier fit is discarded.
FittedVocabulary(vec, docs) ==
    Sorted(LimitFeatures(CountVocab(docs, vec.stop_words), docs, vec))

\* fit_transform: parameter validation, vocabulary, threshold check,
\* pruning, in this order (the constructors validate nothing; the order is
\* that of scikit-learn 1.2 and later).  [err] is "" on success.
FitTransform(vec, docs) ==
    LET bad == [err |-> "", vocabulary_ |-> <<>>, X |-> <<>>]
        vocab == CountVocab(docs, vec.stop_words)
        kept == FittedVocabulary(vec, docs)
    IN  IF vec.max_df < 0 \/ vec.max_df > 100 \/ vec.min_df < 0 \/ vec.min_df > 100
        THEN [bad EXCEPT !.err = "InvalidParameterError"]
        ELSE IF vocab = {}
        THEN [bad EXCEPT !.err = "ValueError: empty vocabulary"]
        ELSE IF vec.max_df * Len(docs) < vec.min_df * Len(docs)
        THEN [bad EXCEPT !.err = "ValueError: max_df corresponds to < documents than min_df"]
        ELSE IF kept = <<>>
        THEN [bad EXCEPT !.err = "ValueError: After pruning, no terms remain"]
        ELSE [err |-> "",
              vocabulary_ |-> kept,
              X |-> [r \in 1..Len(docs) |->
                        [j \in 1..Len(kept) |-> Score(vec, kept[j], docs[r], docs)]]]

\* TfidfVectorizer(...) / CountVectorizer(...): an unfitted vectorizer.
NewVectorizer(method, maxdf, mindf) ==
    [method |-> IF method = "tfidf" THEN "tfidf" ELSE "count",
     max_df |-> maxdf, min_df |-> mindf, stop_words |-> stop, vocabulary_ |-> <<>>]

(***************************************************************************)
(* Tables                                                                  *)
(***************************************************************************)
ColumnNames(tbl) == [i \in 1..Len(tbl) |-> tbl[i].name]

HasColumn(tbl, nm) == nm \in Range(ColumnNames(tbl))

GetColumn(tbl, nm) == tbl[CHOOSE i \in 1..Len(tbl) : tbl[i].name = nm]

\* The number of rows of a table (0 for a table without columns).
Height(tbl) == IF tbl = <<>> THEN 0 ELSE Len(tbl[1].cells)

Distinct(q) == Cardinality(Range(q)) = Len(q)

RECURSIVE Flatten(_)
Flatten(qq) == IF qq = <<>> THEN <<>> ELSE qq[1] \o Flatten(Tail(qq))

\* The indicator columns of one column: its distinct values in order (the
\* first left out with drop_first), a missing value in none of them.
Dummies(col, drop_first) ==
    LET all == Sorted(Range(col.cells) \ {None})
        cats == IF drop_first /\ all # <<>> THEN Tail(all) ELSE all
    IN  [j \in 1..Len(cats) |->
            [name |-> col.name \o PrefixSep \o cats[j],
             kind |-> "dummy",
             cells |-> [r \in 1..Len(col.cells) |->
                          IF col.cells[r] = cats[j] THEN 1 ELSE 0]]]

\* pd.get_dummies(data, columns=..., drop_first=..., prefix_sep="::"): the
\* columns not encoded, then the indicator columns of each encoded column.
GetDummies(tbl, columns, drop_first) ==
    SelectSeq(tbl, LAMBDA col : col.name \notin Range(columns))
    \o Flatten([i \in 1..Len(columns) |-> Dummies(GetColumn(tbl, columns[i]), drop_first)])

\* with_columns([... for t in text_cols]): each text column replaced, in
\* its place, by its token lists.
Tokenize(tbl, text) ==
    [i \in 1..Len(tbl) |->
        IF tbl[i].name \in Range(text)
        THEN [name |-> tbl[i].name,
              kind |-> "list",
              cells |-> [r \in 1..Len(tbl[i].cells) |-> CleanCell(tbl[i].cells[r])]]
        ELSE tbl[i]]

\* The statement that builds df2: [err] is "" and [tbl] the table, or
\* [err] names the exception.
EncodeAndClean(tbl, one_hot, text, drop_first) ==
    LET bad == [err |-> "", tbl |-> <<>>]
        dummies == GetDummies(tbl, one_hot, drop_first)
    IN  IF \E i \in 1..Len(one_hot) : ~HasColumn(tbl, one_hot[i])
        THEN [bad EXCEPT !.err = "KeyError"]
        ELSE IF ~Distinct(ColumnNames(dummies))
        THEN [bad EXCEPT !.err = "ValueError: duplicate column names"]
        ELSE IF \E i \in 1..Len(text) : ~HasColumn(dummies, text[i])
        THEN [bad EXCEPT !.err = "ColumnNotFoundError"]
        ELSE IF \E i \in 1..Len(text) : GetColumn(dummies, text[i]).kind # "str"
        THEN [bad EXCEPT !.err = "SchemaError"]
        ELSE IF ~Distinct(text)
        THEN [bad EXCEPT !.err = "DuplicateError"]
        ELSE [err |-> "", tbl |-> Tokenize(dummies, text)]

\* drop_in_place(c), as the new value of the table.
DropInPlace(tbl, c) == SelectSeq(tbl, LAMBDA col : col.name # c)

\* pl.from_numpy(X.toarray(), columns=names)
FromNumpy(X, names) ==
    [j \in 1..Len(names) |->
        [name |-> names[j], kind |-> "num",
         cells |-> [r \in 1..Len(X) |-> X[r][j]]]]

\* pl.concat(frames, how="horizontal"): the columns side by side; equal
\* names and unequal heights are errors.
ConcatHorizontal(frames) ==
    LET all == Flatten(frames)
    IN  IF ~Distinct(ColumnNames(all))
        THEN [err |-> "DuplicateError", tbl |-> <<>>]
        ELSE IF \E i, j \in 1..Len(frames) :
                    /\ frames[i] # <<>> /\ frames[j] # <<>>
                    /\ Height(frames[i]) # Height(frames[j])
        THEN [err |-> "ShapeError", tbl |-> <<>>]
        ELSE [err |-> "", tbl |-> all]

(***************************************************************************)
(* State                                                                   *)
(***************************************************************************)
VARIABLES
    heap,             \* the table objects: heap[ref] is the value of object ref
    df,               \* argument: the caller's table (a reference)
    df_before,        \* the value of the caller's table when the call began
    one_hot_cols,     \* argument
    text_cols,        \* argument
    drop_first,       \* argument
    vectorize_method, \* argument
    max_df,           \* argument, in hundredths
    min_df,           \* argument, in hundredths
    df2,              \* the encoded and tokenized table (a reference), 0 before
    memo,             \* the stem memo
    stem_calls,       \* the arguments of the calls of ps.stem so far, in order
    vectorizer,       \* the one vectorizer object of the call
    new_columns,      \* the list of the pieces to concatenate (references)
    c_iter,           \* for c in text_cols: index of the next column
    c,                \* the text column being processed
    new_list,         \* the documents of column c so far
    text_column,      \* the token lists of column c
    row_iter,         \* for tokens in text_column: index of the next row
    tokens,           \* the token list of the row being processed
    new_tokens,       \* the stems of the row so far
    w_iter,           \* for w in tokens: index of the next token
    X,                \* the matrix of the last fit_transform
    names,            \* the feature names of the last fit_transform
    df_final,         \* the returned table (a reference), 0 before
    reverse_memo,     \* the returned reverse memo
    pc,               \* the position in transform_text_data
    err               \* the exception, when pc = "raised"

args == <<df, df_before, one_hot_cols, text_cols, drop_first, vectorize_method, max_df, min_df>>

loop == <<c_iter, c, new_list, text_column, row_iter, tokens, new_tokens, w_iter>>

vars ==
    <<heap, args, df2, memo, stem_calls, vectorizer, new_columns, loop, X, names,
      df_final, reverse_memo, pc, err>>

(***************************************************************************)
(* Inputs                                                                  *)
(***************************************************************************)
ColK == <<"k">>
ColT == <<"t">>
ColU == <<"u">>
ColTWord == <<"t", ":", ":", "w", "o", "r", "d">>
ColMissing == <<"x", "x">>

\* The cells a text column t is filled from: missing, punctuation only,
\* two forms of one word, a stop word with a word followed by "%".
TextsT ==
    {None,
     <<"!">>,
     <<"C", "a", "t", "s", " ", "c", "a", "t">>,
     <<"i", "t", " ", "D", "o", "g", "s", "%">>}

\* The categorical column: named k with two categories, or named t::word
\* with the one category cat.
CatColumns(n) ==
    {[name |-> ColK, kind |-> "str",
      cells |-> [r \in 1..n |-> IF r % 2 = 1 THEN <<"x">> ELSE <<"c", "a", "t">>]],
     [name |-> ColTWord, kind |-> "str",
      cells |-> [r \in 1..n |-> <<"c", "a", "t">>]]}

\* The text column t: every filling of its rows from TextsT.
TColumns(n) ==
    {[name |-> ColT, kind |-> "str", cells |-> cs] : cs \in [1..n -> TextsT]}

\* The text column u: one word in every row, or two words in turn.
UColumns(n) ==
    {[name |-> ColU, kind |-> "str",
      cells |-> [r \in 1..n |-> <<"c", "a", "t", "s">>]],
     [name |-> ColU, kind |-> "str",
      cells |-> [r \in 1..n |-> IF r % 2 = 1 THEN <<"D", "o", "g">>
                                             ELSE <<"c", "a", "t", "s">>]]}

Tables ==
    UNION {{<<k, t, u>> : k \in CatColumns(n), t \in TColumns(n), u \in UColumns(n)} :
             n \in 1..MaxRows}

Config(oh, tx, dfirst, method, maxdf, mindf) ==
    [one_hot_cols |-> oh, text_cols |-> tx, drop_first |-> dfirst,
     vectorize_method |-> method, max_df |-> maxdf, min_df |-> mindf]

\* The calls made on a table: the column lists, the thresholds, and the
\* method with drop_first are varied one at a time around a call that
\* keeps every term (min_df = 0.0, max_df = 1.0).
Configs(tbl) ==
    LET cat == tbl[1].name
    IN  {Config(<<cat>>, tx, FALSE, "count", 100, 0) :
            tx \in {<<ColT, ColU>>, <<ColU, ColT>>, <<ColT>>, <<>>}}
        \cup {Config(<<cat>>, <<ColT, ColU>>, FALSE, "count", th[1], th[2]) :
                th \in {<<95, 5>>, <<100, 60>>, <<50, 0>>, <<40, 60>>}}
        \cup {Config(<<cat>>, <<>>, FALSE, "count", 40, 60)}
        \cup {Config(<<cat>>, <<ColT, ColU>>, TRUE, m, 100, 0) : m \in {"tfidf", "other"}}
        \cup {Config(<<ColMissing>>, <<ColT>>, FALSE, "count", 100, 0),
              Config(<<cat>>, <<ColT, ColMissing>>, FALSE, "count", 100, 0),
              Config(<<cat, ColT>>, <<ColT, ColU>>, FALSE, "count", 100, 0)}

Init ==
    \E tbl \in Tables :
        \E cfg \in Configs(tbl) :
            /\ heap = <<tbl>>
            /\ df = 1
            /\ df_before = tbl
            /\ one_hot_cols = cfg.one_hot_cols
            /\ text_cols = cfg.text_cols
            /\ drop_first = cfg.drop_first
            /\ vectorize_method = cfg.vectorize_method
            /\ max_df = cfg.max_df
            /\ min_df = cfg.min_df
            /\ df2 = 0
            /\ memo = <<>>
            /\ stem_calls = <<>>
            /\ vectorizer = <<>>
            /\ new_columns = <<>>
            /\ c_iter = 1
            /\ c = <<>>
            /\ new_list = <<>>
            /\ text_column = <<>>
            /\ row_iter = 1
            /\ tokens = <<>>
            /\ new_tokens = <<>>
            /\ w_iter = 1
            /\ X = <<>>
            /\ names = <<>>
            /\ df_final = 0
            /\ reverse_memo = <<>>
            /\ pc = "encode"
            /\ err = ""

(***************************************************************************)
(* transform_text_data, statement by statement                             *)
(***************************************************************************)
Raise(e) == pc' = "raised" /\ err' = e

\* The first statement writing its result into the caller's table object.
EncodeInPlace ==
    /\ pc = "encode"
    /\ LET r == EncodeAndClean(heap[df], one_hot_cols, text_cols, drop_first)
       IN  IF r.err # ""
           THEN /\ Raise(r.err)
                /\ UNCHANGED <<heap, df2>>
           ELSE /\ heap' = [heap EXCEPT ![df] = r.tbl]
                /\ df2' = df
                /\ pc' = "setup"
                /\ err' = err
    /\ UNCHANGED <<args, memo, stem_calls, vectorizer, new_columns, loop, X, names,
                   df_final, reverse_memo>>

\* df2 = pl.from_pandas(pd.get_dummies(...)).with_columns([...]): a new
\* table object; the caller's table is read only.
Encode ==
    /\ pc = "encode"
    /\ LET r == EncodeAndClean(heap[df], one_hot_cols, text_cols, drop_first)
       IN  IF r.err # ""
           THEN /\ Raise(r.err)
                /\ UNCHANGED <<heap, df2>>
           ELSE /\ heap' = Append(heap, r.tbl)
                /\ df2' = Len(heap) + 1
                /\ pc' = "setup"
                /\ err' = err
    /\ UNCHANGED <<args, memo, stem_calls, vectorizer, new_columns, loop, X, names,
                   df_final, reverse_memo>>

\* new_columns = [df2.clone()]: the list holds a copy of df2.
SetupCopy ==
    /\ pc = "setup"
    /\ memo' = <<>>
    /\ vectorizer' = NewVectorizer(vectorize_method, max_df, min_df)
    /\ heap' = Append(heap, heap[df2])
    /\ new_columns' = <<Len(heap) + 1>>
    /\ pc' = "for_c"
    /\ UNCHANGED <<args, df2, stem_calls, loop, X, names, df_final, reverse_memo, err>>

\* ps, memo = {}, the vectorizer of the method, new_columns = [df2]: the
\* list holds df2 itself, not a copy.
Setup ==
    /\ pc = "setup"
    /\ memo' = <<>>
    /\ vectorizer' = NewVectorizer(vectorize_method, max_df, min_df)
    /\ new_columns' = <<df2>>
    /\ pc' = "for_c"
    /\ UNCHANGED <<heap, args, df2, stem_calls, loop, X, names, df_final,
                   reverse_memo, err>>

\* for c in text_cols: new_list = [], text_column = df2.get_column(c).to_list()
ForC ==
    /\ pc = "for_c"
    /\ c_iter <= Len(text_cols)
    /\ c' = text_cols[c_iter]
    /\ c_iter' = c_iter + 1
    /\ new_list' = <<>>
    /\ text_column' = GetColumn(heap[df2], text_cols[c_iter]).cells
    /\ row_iter' = 1
    /\ pc' = "for_tokens"
    /\ UNCHANGED <<heap, args, df2, memo, stem_calls, vectorizer, new_columns,
                   tokens, new_tokens, w_iter, X, names, df_final, reverse_memo, err>>

\* "if tokens != []": a missing list counts as a list of tokens.
TruthyUnlessEmpty(toks) == toks # <<>>

\* if tokens: a missing list and an empty list are false.
Truthy(toks) == toks # NoneList /\ toks # <<>>

\* for tokens in text_column: if tokens: new_tokens = []
RowWithTokens ==
    /\ pc = "for_tokens"
    /\ row_iter <= Len(text_column)
    /\ Truthy(text_column[row_iter])
    /\ tokens' = text_column[row_iter]
    /\ row_iter' = row_iter + 1
    /\ new_tokens' = <<>>
    /\ w_iter' = 1
    /\ pc' = "for_w"
    /\ UNCHANGED <<heap, args, df2, memo, stem_calls, vectorizer, new_columns,
                   c_iter, c, new_list, text_column, X, names, df_final,
                   reverse_memo, err>>

\* The else branch without its append: a row without tokens is skipped.
RowWithoutTokensSkipped ==
    /\ pc = "for_tokens"
    /\ row_iter <= Len(text_column)
    /\ ~Truthy(text_column[row_iter])
    /\ tokens' = text_column[row_iter]
    /\ row_iter' = row_iter + 1
    /\ UNCHANGED <<heap, args, df2, memo, stem_calls, vectorizer, new_columns,
                   c_iter, c, new_list, text_column, new_tokens, w_iter, X, names,
                   df_final, reverse_memo, pc, err>>

\* for tokens in text_column: else: new_list.append("Unknown")
RowWithoutTokens ==
    /\ pc = "for_tokens"
    /\ row_iter <= Len(text_column)
    /\ ~Truthy(text_column[row_iter])
    /\ tokens' = text_column[row_iter]
    /\ row_iter' = row_iter + 1
    /\ new_list' = Append(new_list, Unknown)
    /\ UNCHANGED <<heap, args, df2, memo, stem_calls, vectorizer, new_columns,
                   c_iter, c, text_column, new_tokens, w_iter, X, names, df_final,
                   reverse_memo, pc, err>>

\* The memo never consulted: every token is stemmed again.
InMemoNever(w, m) == FALSE

\* w in memo
InMemo(w, m) == w \in DictKeys(m)

\* for w in tokens: w not in memo: memo[w] = ps.stem(w); new_tokens.append(memo[w])
StemMiss ==
    /\ pc = "for_w"
    /\ w_iter <= Len(tokens)
    /\ ~InMemo(tokens[w_iter], memo)
    /\ memo' = DictSet(memo, tokens[w_iter], PorterStem(tokens[w_iter]))
    /\ stem_calls' = Append(stem_calls, tokens[w_iter])
    /\ new_tokens' = Append(new_tokens, DictGet(memo', tokens[w_iter]))
    /\ w_iter' = w_iter + 1
    /\ UNCHANGED <<heap, args, df2, vectorizer, new_columns, c_iter, c, new_list,
                   text_column, row_iter, tokens, X, names, df_final, reverse_memo,
                   pc, err>>

\* for w in tokens: w in memo: new_tokens.append(memo[w])
StemHit ==
    /\ pc = "for_w"
    /\ w_iter <= Len(tokens)
    /\ InMemo(tokens[w_iter], memo)
    /\ new_tokens' = Append(new_tokens, DictGet(memo, tokens[w_iter]))
    /\ w_iter' = w_iter + 1
    /\ UNCHANGED <<heap, args, df2, memo, stem_calls, vectorizer, new_columns,
                   c_iter, c, new_list, text_column, row_iter, tokens, X, names,
                   df_final, reverse_memo, pc, err>>

\* new_list.append(" ".join(new_tokens))
JoinRow ==
    /\ pc = "for_w"
    /\ w_iter > Len(tokens)
    /\ new_list' = Append(new_list, JoinSpace(new_tokens))
    /\ pc' = "for_tokens"
    /\ UNCHANGED <<heap, args, df2, memo, stem_calls, vectorizer, new_columns,
                   c_iter, c, text_column, row_iter, tokens, new_tokens, w_iter,
                   X, names, df_final, reverse_memo, err>>

\* names = [c + "::word::" + x for x in vectorizer.get_feature_names_out()]
FeatureNames(col, vocabulary) ==
    [j \in 1..Len(vocabulary) |-> col \o WordSep \o vocabulary[j]]

\* After the rows of column c: X = vectorizer.fit_transform(new_list), the
\* names, df2.drop_in_place(c) on the object df2, and the new frame appended
\* to new_columns.
Vectorize ==
    /\ pc = "for_tokens"
    /\ row_iter > Len(text_column)
    /\ LET r == FitTransform(vectorizer, new_list)
       IN  IF r.err # ""
           THEN /\ Raise(r.err)
                /\ UNCHANGED <<heap, vectorizer, new_columns, X, names>>
           ELSE /\ vectorizer' = [vectorizer EXCEPT !.vocabulary_ = r.vocabulary_]
                /\ X' = r.X
                /\ names' = FeatureNames(c, r.vocabulary_)
                /\ heap' = Append([heap EXCEPT ![df2] = DropInPlace(@, c)],
                                  FromNumpy(X', names'))
                /\ new_columns' = Append(new_columns, Len(heap) + 1)
                /\ pc' = "for_c"
                /\ err' = err
    /\ UNCHANGED <<args, df2, memo, stem_calls, loop, df_final, reverse_memo>>

\* df_final = pl.concat(new_columns, how="horizontal");
\* return df_final, _reverse_memo(memo)
Return ==
    /\ pc = "for_c"
    /\ c_iter > Len(text_cols)
    /\ LET r == ConcatHorizontal([i \in 1..Len(new_columns) |-> heap[new_columns[i]]])
       IN  IF r.err # ""
           THEN /\ Raise(r.err)
                /\ UNCHANGED <<heap, df_final, reverse_memo>>
           ELSE /\ heap' = Append(heap, r.tbl)
                /\ df_final' = Len(heap) + 1
                /\ reverse_memo' = _reverse_memo(memo)
                /\ pc' = "returned"
                /\ err' = err
    /\ UNCHANGED <<args, df2, memo, stem_calls, vectorizer, new_columns, loop, X, names>>

Next ==
    \/ Encode
    \/ Setup
    \/ ForC
    \/ RowWithTokens
    \/ RowWithoutTokens
    \/ StemMiss
    \/ StemHit
    \/ JoinRow
    \/ Vectorize
    \/ Return

Spec == Init /\ [][Next]_vars

(***************************************************************************)
(* The input, as the properties read it                                    *)
(***************************************************************************)
\* The number of rows of the caller's table.
NRows == Height(df_before)

\* The original cell of text column col in row r.
InputCell(col, r) == GetColumn(df_before, col).cells[r]

\* The document of one original cell: "Unknown" for a missing cell, else
\* the stems of its tokens joined by spaces.
DocOf(cell) ==
    IF cell = None THEN Unknown
    ELSE LET toks == CleanCell(cell)
         IN  JoinSpace([j \in 1..Len(toks) |-> PorterStem(toks[j])])

\* The documents of text column col.
DocsOf(col) == [r \in 1..NRows |-> DocOf(InputCell(col, r))]

\* The distinct raw tokens of the text columns of the call.
RawTokens ==
    UNION {Range(CleanCell(InputCell(text_cols[k], r))) :
             <<k, r>> \in {kr \in (1..Len(text_cols)) \X (1..NRows) :
                             InputCell(text_cols[kr[1]], kr[2]) # None}}

\* The places <<i, j>> of token t in the lists of the reverse memo.
PlacesOf(t) ==
    {ij \in (1..Len(reverse_memo)) \X (1..Len(memo)) :
        /\ ij[2] <= Len(reverse_memo[ij[1]].v)
        /\ reverse_memo[ij[1]].v[ij[2]] = t}

RECURSIVE SumLen(_)
SumLen(d) == IF d = <<>> THEN 0 ELSE Len(d[1].v) + SumLen(Tail(d))

\* The row loop of column c is running.
InRows == pc \in {"for_tokens", "for_w"}

\* The rows of column c whose document is in new_list.
RowsDone == IF pc = "for_w" THEN row_iter - 2 ELSE row_iter - 1

\* The frame of text column k of text_cols, once it is in new_columns.
Frame(k) == heap[new_columns[k + 1]]

ColumnNameSet(tbl) == Range(ColumnNames(tbl))

(***************************************************************************)
(* Properties                                                              *)
(***************************************************************************)
\* C1: during one call ps.stem is called at most once for each distinct raw
\* token, over all rows of all text columns; the memo only grows (no item
\* is overwritten or removed); and every token of the row in progress has
\* got the stem the memo holds for it.
StemOncePerToken ==
    [][/\ Distinct(stem_calls')
       /\ DictKeys(memo') = Range(stem_calls')
       /\ Len(memo) <= Len(memo')
       /\ SubSeq(memo', 1, Len(memo)) = memo
       /\ pc' = "for_w" =>
             \A j \in 1..Len(new_tokens') :
                 /\ InMemo(tokens'[j], memo')
                 /\ new_tokens'[j] = DictGet(memo', tokens'[j])]_vars

\* A token of the second text column that also occurs in the first has just
\* been served from the memo.
StemServedFromMemo ==
    /\ pc = "for_w"
    /\ c_iter = 3
    /\ w_iter > 1
    /\ Len(new_tokens) = w_iter - 1
    /\ \E r \in 1..NRows :
          /\ InputCell(text_cols[1], r) # None
          /\ tokens[w_iter - 1] \in Range(CleanCell(InputCell(text_cols[1], r)))

\* C2: on return every raw token of the text columns is in exactly one list
\* of the reverse memo, once, under the key that is its stem; the keys are
\* the distinct stems of the memo; the lengths add up to the number of
\* distinct raw tokens.
ReverseMemoComplete ==
    pc = "returned" =>
        /\ \A t \in RawTokens :
              /\ Cardinality(PlacesOf(t)) = 1
              /\ \A ij \in PlacesOf(t) :
                    /\ reverse_memo[ij[1]].k = DictGet(memo, t)
                    /\ reverse_memo[ij[1]].k = PorterStem(t)
        /\ Distinct([i \in 1..Len(reverse_memo) |-> reverse_memo[i].k])
        /\ DictKeys(reverse_memo) = DictValues(memo)
        /\ SumLen(reverse_memo) = Cardinality(RawTokens)

\* A call has returned a reverse memo in which two raw tokens share a stem.
ReverseMemoSharedStem ==
    /\ pc = "returned"
    /\ \E i \in 1..Len(reverse_memo) : Len(reverse_memo[i].v) >= 2

\* C3: a row whose original cell is missing appends exactly "Unknown" to the
\* documents, in one step that makes no stem call and leaves the memo as it
\* is.
NullRowEmitsUnknown ==
    [][(/\ pc = "for_tokens"
        /\ row_iter <= Len(text_column)
        /\ InputCell(c, row_iter) = None)
       => /\ new_list' = Append(new_list, Unknown)
          /\ row_iter' = row_iter + 1
          /\ pc' = "for_tokens"
          /\ memo' = memo
          /\ stem_calls' = stem_calls]_vars

\* A missing cell has been processed while the memo held stems already.
NullRowProcessed ==
    /\ pc = "for_tokens"
    /\ row_iter > 1
    /\ InputCell(c, row_iter - 1) = None
    /\ new_list[row_iter - 1] = Unknown
    /\ memo # <<>>

\* C4: no document handed to the vectorizer is empty, and a cell that is
\* missing, empty or empty after the punctuation is stripped has the
\* document "Unknown".
NoEmptyDocument ==
    InRows =>
        \A i \in 1..Len(new_list) :
            /\ new_list[i] # <<>>
            /\ (InputCell(c, i) = None \/ StripPunct(InputCell(c, i)) = <<>>)
                  => new_list[i] = Unknown

\* The call has one of the configuration errors.
ConfigError ==
    \/ \E i \in 1..Len(one_hot_cols) : ~HasColumn(df_before, one_hot_cols[i])
    \/ \E i \in 1..Len(text_cols) : ~HasColumn(df_before, text_cols[i])
    \/ Range(one_hot_cols) \cap Range(text_cols) # {}
    \/ min_df > max_df
    \/ min_df < 0 \/ min_df > 100 \/ max_df < 0 \/ max_df > 100

\* C5: a call with a configuration error (a column name that is not in the
\* table, overlapping column lists, min_df > max_df, a threshold outside
\* [0, 1]) fails before any text column is processed: when it has failed,
\* nothing was stemmed, the memo is empty and no column was dropped.
ConfigErrorFailsFast ==
    (ConfigError /\ pc = "raised") =>
        /\ stem_calls = <<>>
        /\ memo = <<>>
        /\ Len(new_columns) <= 1

\* C6: with disjoint column lists, no name generated for a one-hot column
\* equals a name generated for a text feature, and no two text columns
\* generate the same feature name.
GeneratedNamesDistinct ==
    (Range(one_hot_cols) \cap Range(text_cols) = {} /\ df2 # 0) =>
        LET onehot == {heap[df2][i].name :
                         i \in {j \in 1..Len(heap[df2]) : heap[df2][j].kind = "dummy"}}
        IN  \A k \in 1..(Len(new_columns) - 1) :
                /\ ColumnNameSet(Frame(k)) \cap onehot = {}
                /\ \A l \in 1..(Len(new_columns) - 1) :
                      k # l => ColumnNameSet(Frame(k)) \cap ColumnNameSet(Frame(l)) = {}

\* C7: the number of rows never changes and the order of the rows is kept:
\* every column of df2, the token lists and the documents of a text column,
\* the matrix, every feature frame and the returned table have the rows of
\* the caller's table, and document i of a column is the document of the
\* column's original cell i.
RowCountPreserved ==
    /\ df2 # 0 => \A i \in 1..Len(heap[df2]) : Len(heap[df2][i].cells) = NRows
    /\ InRows =>
          /\ Len(text_column) = NRows
          /\ Len(new_list) = RowsDone
          /\ \A i \in 1..Len(new_list) : new_list[i] = DocOf(InputCell(c, i))
    /\ \A k \in 1..(Len(new_columns) - 1) :
          /\ Frame(k) # <<>>
          /\ \A j \in 1..Len(Frame(k)) : Len(Frame(k)[j].cells) = NRows
    /\ Len(new_columns) > 1 => Len(X) = NRows
    /\ df_final # 0 =>
          \A i \in 1..Len(heap[df_final]) : Len(heap[df_final][i].cells) = NRows

\* A call on a table of two rows, one of them without tokens, has returned.
ReturnedWithMissingRow ==
    /\ pc = "returned"
    /\ NRows >= 2
    /\ Len(text_cols) >= 1
    /\ \E r \in 1..NRows : InputCell(text_cols[1], r) = None

\* C8: the feature frame of a text column is what a vectorizer fitted from
\* scratch on that column's own documents gives, whatever text columns were
\* processed before it.
IndependentFit ==
    \A k \in 1..(Len(new_columns) - 1) :
        LET col == text_cols[k]
            r == FitTransform(NewVectorizer(vectorize_method, max_df, min_df),
                              DocsOf(col))
        IN  /\ r.err = ""
            /\ Frame(k) = FromNumpy(r.X, FeatureNames(col, r.vocabulary_))

\* Two text columns were vectorized and the first has a term the second
\* does not have.
SecondFitDiffers ==
    /\ Len(new_columns) = 3
    /\ \E i \in 1..Len(Frame(1)) :
          \A j \in 1..Len(Frame(2)) :
              SubSeq(Frame(1)[i].name, Len(text_cols[1]) + 1, Len(Frame(1)[i].name))
              # SubSeq(Frame(2)[j].name, Len(text_cols[2]) + 1, Len(Frame(2)[j].name))

\* C9: on return the output has none of the original text columns; its
\* columns are the columns of the encoded table that are not text columns,
\* then the feature columns of each text column in the order of text_cols;
\* and the piece put into new_columns before the loop is df2 itself, with
\* the text columns dropped.
OutputColumns ==
    pc = "returned" =>
        LET out == heap[df_final]
            enc == EncodeAndClean(df_before, one_hot_cols, text_cols, drop_first).tbl
            kept == SelectSeq(enc, LAMBDA col : col.name \notin Range(text_cols))
        IN  /\ \A i \in 1..Len(out) :
                  /\ out[i].kind # "list"
                  /\ out[i].name \notin Range(text_cols)
            /\ Len(new_columns) = Len(text_cols) + 1
            /\ out = kept \o Flatten([k \in 1..Len(text_cols) |-> Frame(k)])
            /\ \A k \in 1..Len(text_cols) :
                  \A j \in 1..Len(Frame(k)) :
                      /\ Frame(k)[j].kind = "num"
                      /\ SubSeq(Frame(k)[j].name, 1, Len(text_cols[k] \o WordSep))
                            = text_cols[k] \o WordSep
            /\ new_columns[1] = df2
            /\ heap[new_columns[1]] = kept

\* A call with two text columns has returned.
ReturnedTwoTextColumns ==
    /\ pc = "returned"
    /\ Len(text_cols) = 2
    /\ Len(heap[df_final]) > Len(heap[df2])

\* C10: the caller's table is never changed: at every point of the call,
\* returned or raised, it has the columns and the cells it had before.
CallerTableUnchanged ==
    /\ heap[df] = df_before
    /\ df2 # 0 => df2 # df
    /\ df_final # 0 => df_final # df

\* A call has raised after a text column was dropped from df2.
RaisedAfterDrop ==
    /\ pc = "raised"
    /\ Len(new_columns) >= 2
    /\ ~HasColumn(heap[df2], text_cols[1])
    /\ HasColumn(heap[df], text_cols[1])

====
